---- MODULE Spec2Model ----
\* Model of mlog's FileWriter (file_writer.go): an hourly rotating log file
\* sink with a "text.log" symlink, a Slack alert side channel and a
\* background hourlyTicker goroutine that signals hour changes.
EXTENDS Integers, Sequences, FiniteSets, TLC

\* ---------------------------------------------------------------- bounds
\* Wall-clock time is counted in periods of the runtime ticker (one second
\* in the source); an hour is HourLen of them.
HourLen == 2
NumHours == 3
MaxOps == 3
MaxAlerts == 1

MaxTime == NumHours * HourLen - 1

\* ------------------------------------------------------ program constants
\* time.Time.Hour() is in 0..23
HoursPerDay == 24
\* the severity Write compares against before alerting
LevelError == 1

\* severities just below, at and just above LevelError
Levels == (LevelError - 1) .. (LevelError + 1)
Threads == {"w1", "w2"}
Names == {"bot"}
Channels == {"#ops"}

NoFile == -1
\* fw.fd before the first Init
NilFd == [file |-> NoFile, st |-> "nil"]

VARIABLES
    now,        \* wall clock
    ticker,     \* runtime time.Ticker: [on, fired, C] (C has capacity 1)
    ht,         \* hourlyTicker goroutine: [pc, hour, t]
    quitClosed, \* ht.quitCh has been closed
    panic,      \* "none" or the reason the process died
    fwfd,       \* fw.fd: [file, st], st is "nil", "open" or "closed"
    leaked,     \* descriptors still open that fw.fd no longer refers to
    files,      \* content of each hourly file: [msg, hr] per message
    exists,     \* hourly files present on disk
    link,       \* target of the text.log symlink, NoFile when absent
    level,      \* fw.level
    slack,      \* fw.slack: [Username, Channel]
    alerts,     \* POSTs attempted by postToSlack
    th,         \* per caller: position inside Write / Init
    ops,        \* number of state-changing calls made so far
    last,       \* the last Write that returned: [msg, hr, err]
    closed,     \* Close was called and no caller's Init succeeded since
    conc        \* callers may overlap their calls

vars == <<now, ticker, ht, quitClosed, panic, fwfd, leaked, files, exists, link,
          level, slack, alerts, th, ops, last, closed, conc>>

\* --------------------------------------------------------------- helpers
\* t.Format("2006-01-02_15"): date and hour, i.e. the absolute hour
LogFile(t) == t \div HourLen

\* t.Hour(): hour of the day
Hour(t) == (t \div HourLen) % HoursPerDay

Idle == [pc |-> "idle", op |-> "none", msg |-> 0, lvl |-> LevelError,
         perr |-> "nil", hr |-> NoFile, rot |-> FALSE, rotErr |-> FALSE,
         name |-> NoFile, ac |-> FALSE, old |-> NoFile]

Alive == panic = "none"

\* No call is in progress.
Quiet == \A w \in Threads : th[w].pc = "idle"

\* A caller may start a call other than Write: these are made one at a time.
CanCall ==
    /\ Alive
    /\ ops < MaxOps
    /\ Quiet

\* A caller may start a Write: the second caller's Write overlaps the first
\* caller's when calls may overlap.
CanStart(w) ==
    /\ Alive
    /\ ops < MaxOps
    /\ th[w].pc = "idle"
    /\ IF w = "w1" THEN Quiet ELSE conc /\ th["w1"].op = "Write"

FdOpen(f) == f.st = "open"

\* (*os.File).Close / Sync / Write on a nil or closed file
FdErr(f) == IF f.st = "nil" THEN "ErrInvalid"
            ELSE IF f.st = "closed" THEN "ErrClosed" ELSE "nil"

NoWrite == [msg |-> 0, hr |-> NoFile, err |-> "nil"]

\* ------------------------------------------------------------------ Init
\* NewFileWriter: the fields it sets and the goroutine it starts
NewFileWriter(c) ==
    /\ now = 0
    /\ ticker = [on |-> FALSE, fired |-> FALSE, C |-> <<>>]
    /\ ht = [pc |-> "start", hour |-> 0, t |-> 0]
    /\ quitClosed = FALSE
    /\ panic = "none"
    /\ fwfd = NilFd
    /\ leaked = 0
    /\ files = [h \in 0 .. (NumHours - 1) |-> <<>>]
    /\ exists = {}
    /\ link = NoFile
    /\ level = 0
    /\ slack \in [Username : Names, Channel : Channels]
    /\ alerts = <<>>
    /\ th = [w \in Threads |-> Idle]
    /\ ops = 0
    /\ last = NoWrite
    /\ closed = FALSE
    /\ conc \in c

Init == NewFileWriter(BOOLEAN)

\* ------------------------------------------------------------ wall clock
\* One ticker period passes. The runtime ticker fires once in every period.
\* The model stops counting at MaxTime: its last hour does not end.
Advance ==
    /\ Alive
    /\ ticker.on => ticker.fired
    /\ now' = IF now < MaxTime THEN now + 1 ELSE now
    /\ ticker' = [ticker EXCEPT !.fired = FALSE]
    /\ UNCHANGED <<ht, quitClosed, panic, fwfd, leaked, files, exists, link,
                   level, slack, alerts, th, ops, last, closed, conc>>

\* The runtime ticker delivers the current time to ticker.C and drops the
\* tick when the one-slot channel is still full.
Tick ==
    /\ Alive
    /\ ticker.on
    /\ ~ticker.fired
    /\ ticker' = [ticker EXCEPT !.fired = TRUE,
                                !.C = IF @ = <<>> THEN <<now>> ELSE @]
    /\ UNCHANGED <<now, ht, quitClosed, panic, fwfd, leaked, files, exists,
                   link, level, slack, alerts, th, ops, last, closed, conc>>

\* ---------------------------------------------------------- hourlyTicker
\* go func() { hour := time.Now().Hour(); ticker := time.NewTicker(...)
startTimer ==
    /\ Alive
    /\ ht.pc = "start"
    /\ ht' = [ht EXCEPT !.pc = "select", !.hour = Hour(now)]
    /\ ticker' = [on |-> TRUE, fired |-> TRUE, C |-> <<>>]
    /\ UNCHANGED <<now, quitClosed, panic, fwfd, leaked, files, exists, link,
                   level, slack, alerts, th, ops, last, closed, conc>>

\* case <-ht.quitCh: return   (deferred ticker.Stop())
TickerQuit ==
    /\ Alive
    /\ ht.pc = "select"
    /\ quitClosed
    /\ ht' = [ht EXCEPT !.pc = "done"]
    /\ ticker' = [on |-> FALSE, fired |-> FALSE, C |-> <<>>]
    /\ UNCHANGED <<now, quitClosed, panic, fwfd, leaked, files, exists, link,
                   level, slack, alerts, th, ops, last, closed, conc>>

\* the goroutine rotating by itself: it closes fw.fd when the hour changed
TickerRecvEager ==
    /\ Alive
    /\ ht.pc = "select"
    /\ ticker.C # <<>>
    /\ LET t == Head(ticker.C) IN
         /\ ht' = IF Hour(t) # ht.hour
                  THEN [ht EXCEPT !.pc = "send", !.t = t]
                  ELSE ht
         /\ fwfd' = IF Hour(t) # ht.hour /\ fwfd.st = "open"
                    THEN [fwfd EXCEPT !.st = "closed"]
                    ELSE fwfd
    /\ ticker' = [ticker EXCEPT !.C = <<>>]
    /\ UNCHANGED <<now, quitClosed, panic, leaked, files, exists, link,
                   level, slack, alerts, th, ops, last, closed, conc>>

\* case t := <-ticker.C: if t.Hour() != hour { about to send on ht.C }
TickerRecv ==
    /\ Alive
    /\ ht.pc = "select"
    /\ ticker.C # <<>>
    /\ LET t == Head(ticker.C) IN
         ht' = IF Hour(t) # ht.hour
               THEN [ht EXCEPT !.pc = "send", !.t = t]
               ELSE ht
    /\ ticker' = [ticker EXCEPT !.C = <<>>]
    /\ UNCHANGED <<now, quitClosed, panic, fwfd, leaked, files, exists, link,
                   level, slack, alerts, th, ops, last, closed, conc>>

\* the goroutine after its send without hour = t.Hour()
AfterSendSameHour(h) == [h EXCEPT !.pc = "select", !.t = 0]

\* the goroutine once ht.C <- t completed: hour = t.Hour()
AfterSend(h) == [h EXCEPT !.pc = "select", !.hour = Hour(h.t), !.t = 0]

\* func (ht *hourlyTicker) stop() { close(ht.quitCh) }
stop ==
    /\ CanCall
    /\ IF quitClosed
       THEN panic' = "close of closed channel" /\ UNCHANGED quitClosed
       ELSE quitClosed' = TRUE /\ UNCHANGED panic
    /\ ops' = ops + 1
    /\ UNCHANGED <<now, ticker, ht, fwfd, leaked, files, exists, link,
                   level, slack, alerts, th, last, closed, conc>>

\* ------------------------------------------------------------ FileWriter
\* func (fw *FileWriter) SetLevel(l Level)
SetLevel ==
    /\ CanCall
    /\ \E l \in Levels : level' = l
    /\ ops' = ops + 1
    /\ UNCHANGED <<now, ticker, ht, quitClosed, panic, fwfd, leaked, files,
                   exists, link, slack, alerts, th, last, closed, conc>>

\* func (fw *FileWriter) GetLevel() Level { return fw.level }
GetLevel ==
    /\ Alive
    /\ Quiet
    /\ UNCHANGED vars

\* func (fw *FileWriter) Flush() error { return fw.fd.Sync() }
Flush ==
    /\ Alive
    /\ Quiet
    /\ UNCHANGED vars

\* (*os.File).Close()
CloseFd(f) == IF FdOpen(f) THEN [f EXCEPT !.st = "closed"] ELSE f

\* func (fw *FileWriter) Close() error { return fw.fd.Close() }
Close ==
    /\ CanCall
    /\ fwfd' = CloseFd(fwfd)
    /\ closed' = TRUE
    /\ ops' = ops + 1
    /\ UNCHANGED <<now, ticker, ht, quitClosed, panic, leaked, files, exists,
                   link, level, slack, alerts, th, last, conc>>

\* postToSlack with the name and the channel exchanged
postToSlackSwapped(msg) ==
    [Text |-> msg, Username |-> slack.Channel, Channel |-> slack.Username]

\* the alert record postToSlack marshals and POSTs
postToSlack(msg) ==
    [Text |-> msg, Username |-> slack.Username, Channel |-> slack.Channel]

\* what http.DefaultClient.Post may return
PostErrs == {"nil", "post error"}

\* the alert test with the comparison reversed
AlertingReversed(lvl) == lvl <= LevelError

\* if level >= LevelError { fw.postToSlack(msg) }
Alerting(lvl) == lvl >= LevelError

\* Write, lines 106-111: the alert branch; the error is discarded
Write(w) ==
    /\ CanStart(w)
    /\ ops' = ops + 1
    /\ \E lvl \in Levels, perr \in PostErrs :
         /\ Alerting(lvl) => Len(alerts) < MaxAlerts
         /\ ~Alerting(lvl) => perr = "nil"
         /\ th' = [th EXCEPT ![w] = [Idle EXCEPT !.pc = "checkFile",
                                       !.op = "Write", !.msg = ops + 1,
                                       !.lvl = lvl, !.perr = perr,
                                       !.hr = LogFile(now),
                                       !.ac = (closed /\ fwfd.st # "nil")]]
         /\ alerts' = IF Alerting(lvl)
                      THEN Append(alerts, postToSlack(ops + 1))
                      ELSE alerts
    /\ UNCHANGED <<now, ticker, ht, quitClosed, panic, fwfd, leaked, files,
                   exists, link, level, slack, last, closed, conc>>

\* a rotation that leaves the event waiting on the channel
checkFileRotatePeek(w) ==
    /\ Alive
    /\ th[w].pc = "checkFile"
    /\ ht.pc = "send"
    /\ fwfd' = CloseFd(fwfd)
    /\ th' = [th EXCEPT ![w].pc = "Init", ![w].rot = TRUE,
                        ![w].lvl = LevelError, ![w].old = fwfd.file]
    /\ UNCHANGED <<now, ticker, ht, quitClosed, panic, leaked, files, exists,
                   link, level, slack, alerts, ops, last, closed, conc>>

\* checkFile: case <-fw.hourlyTicker.C  (rendezvous with the blocked send),
\* then fw.fd.Sync(); fw.fd.Close()
checkFileRotate(w) ==
    /\ Alive
    /\ th[w].pc = "checkFile"
    /\ ht.pc = "send"
    /\ ht' = AfterSend(ht)
    /\ fwfd' = CloseFd(fwfd)
    /\ th' = [th EXCEPT ![w].pc = "Init", ![w].rot = TRUE,
                        ![w].lvl = LevelError, ![w].old = fwfd.file]
    /\ UNCHANGED <<now, ticker, quitClosed, panic, leaked, files, exists,
                   link, level, slack, alerts, ops, last, closed, conc>>

\* a poll with no default case: the caller waits for a sender
checkFileBlocking(w) ==
    /\ Alive
    /\ th[w].pc = "checkFile"
    /\ ht.pc # "send"
    /\ FALSE
    /\ UNCHANGED vars

\* a Write below the stored level returning before its byte write
checkFileDefaultGated(w) ==
    /\ Alive
    /\ th[w].pc = "checkFile"
    /\ ht.pc # "send"
    /\ th' = [th EXCEPT ![w] = IF th[w].lvl < level
                               THEN Idle
                               ELSE [@ EXCEPT !.pc = "Fprint",
                                              !.lvl = LevelError]]
    /\ UNCHANGED <<now, ticker, ht, quitClosed, panic, fwfd, leaked, files,
                   exists, link, level, slack, alerts, ops, last, closed,
                   conc>>

\* checkFile: default (no sender is waiting on hourlyTicker.C)
checkFileDefault(w) ==
    /\ Alive
    /\ th[w].pc = "checkFile"
    /\ ht.pc # "send"
    /\ th' = [th EXCEPT ![w].pc = "Fprint", ![w].lvl = LevelError]
    /\ UNCHANGED <<now, ticker, ht, quitClosed, panic, fwfd, leaked, files,
                   exists, link, level, slack, alerts, ops, last, closed,
                   conc>>

\* a caller invokes Init directly
InitCall(w) ==
    /\ CanCall
    /\ w = "w1"
    /\ ops' = ops + 1
    /\ th' = [th EXCEPT ![w] = [Idle EXCEPT !.pc = "Init", !.op = "Init"]]
    /\ UNCHANGED <<now, ticker, ht, quitClosed, panic, fwfd, leaked, files,
                   exists, link, level, slack, alerts, last, closed, conc>>

\* Init, lines 44-59: MkdirAll (panics on failure), the file name from
\* time.Now(), Lstat and Remove of the old link
InitRemove(w) ==
    /\ Alive
    /\ th[w].pc = "Init"
    /\ \/ /\ th' = [th EXCEPT ![w].pc = "Symlink", ![w].name = LogFile(now)]
          /\ link' = NoFile
          /\ UNCHANGED panic
       \/ /\ panic' = "MkdirAll"
          /\ UNCHANGED <<th, link>>
    /\ UNCHANGED <<now, ticker, ht, quitClosed, fwfd, leaked, files, exists,
                   level, slack, alerts, ops, last, closed, conc>>

\* Init, line 60: os.Symlink fails (ignored) when text.log exists
InitSymlink(w) ==
    /\ Alive
    /\ th[w].pc = "Symlink"
    /\ link' = IF link = NoFile THEN th[w].name ELSE link
    /\ th' = [th EXCEPT ![w].pc = "OpenFile"]
    /\ UNCHANGED <<now, ticker, ht, quitClosed, panic, fwfd, leaked, files,
                   exists, level, slack, alerts, ops, last, closed, conc>>

\* where a caller continues once Init returned
AfterInit(t, err) ==
    IF t.op = "Write"
    THEN [t EXCEPT !.pc = "Fprint", !.rotErr = (err # "nil")]
    ELSE Idle

\* Init, lines 62-67: os.OpenFile(O_CREATE|O_APPEND); fw.fd = fd
InitOpen(w) ==
    /\ Alive
    /\ th[w].pc = "OpenFile"
    /\ \/ /\ fwfd' = [file |-> th[w].name, st |-> "open"]
          /\ leaked' = IF FdOpen(fwfd) THEN leaked + 1 ELSE leaked
          /\ exists' = exists \cup {th[w].name}
          /\ th' = [th EXCEPT ![w] = AfterInit(th[w], "nil")]
          /\ closed' = IF th[w].op = "Init" THEN FALSE ELSE closed
       \/ /\ th' = [th EXCEPT ![w] = AfterInit(th[w], "open error")]
          /\ UNCHANGED <<fwfd, leaked, exists, closed>>
    /\ UNCHANGED <<now, ticker, ht, quitClosed, panic, files, link, level,
                   slack, alerts, ops, last, conc>>

\* a message as it stands in a file, with the hour its Write was issued
\* in (NoFile when an hour changed during the call)
Line(t) == [msg |-> t.msg, hr |-> IF t.hr = LogFile(now) THEN t.hr ELSE NoFile]

\* Write returning the error of the alert POST when there is one
ReturnedPostErr(t, err) ==
    [msg |-> t.msg, hr |-> Line(t).hr,
     err |-> IF t.perr # "nil" THEN t.perr ELSE err]

\* what a Write call returned
Returned(t, err) == [msg |-> t.msg, hr |-> Line(t).hr, err |-> err]

\* a write that lands at the start of the file
WriteAtStart(content, line) == <<line>> \o content

\* a write on a descriptor opened with os.O_APPEND (line 62): the bytes go
\* to the end of the file
AppendWrite(content, line) == Append(content, line)

\* Write, lines 113-114: _, err := fmt.Fprint(fw.fd, msg); return err
Fprint(w) ==
    /\ Alive
    /\ th[w].pc = "Fprint"
    /\ th' = [th EXCEPT ![w] = Idle]
    /\ \/ /\ FdOpen(fwfd)
          /\ files' = [files EXCEPT ![fwfd.file] = AppendWrite(@, Line(th[w]))]
          /\ last' = Returned(th[w], "nil")
       \/ /\ FdOpen(fwfd)
          /\ last' = Returned(th[w], "write error")
          /\ UNCHANGED files
       \/ /\ ~FdOpen(fwfd)
          /\ last' = Returned(th[w], FdErr(fwfd))
          /\ UNCHANGED files
    /\ UNCHANGED <<now, ticker, ht, quitClosed, panic, fwfd, leaked, exists,
                   link, level, slack, alerts, ops, closed, conc>>

\* ------------------------------------------------------- specifications
Clock == startTimer \/ TickerRecv \/ TickerQuit

Writer(w) ==
    \/ Write(w)
    \/ checkFileRotate(w)
    \/ checkFileDefault(w)
    \/ InitCall(w)
    \/ InitRemove(w)
    \/ InitSymlink(w)
    \/ InitOpen(w)
    \/ Fprint(w)

Next ==
    \/ Advance
    \/ Tick
    \/ Clock
    \/ stop
    \/ SetLevel
    \/ GetLevel
    \/ Flush
    \/ Close
    \/ \E w \in Threads : Writer(w)

Spec == Init /\ [][Next]_vars

\* The sink with no Write ever called. The goroutine and the runtime
\* ticker are scheduled fairly and time goes on.
NextIdle ==
    \/ Advance
    \/ Tick
    \/ Clock
    \/ stop
    \/ SetLevel
    \/ GetLevel
    \/ Flush
    \/ Close
    \/ \E w \in Threads : InitCall(w) \/ InitRemove(w) \/ InitSymlink(w)
                             \/ InitOpen(w)

IdleSpec ==
    /\ Init
    /\ [][NextIdle]_vars
    /\ WF_vars(Clock)
    /\ WF_vars(Tick)
    /\ WF_vars(Advance)

\* ------------------------------------------------------------- claims
\* the step in which caller w enters Write (lines 106-111)
WriteStep(w) == th[w].pc = "idle" /\ th'[w].pc = "checkFile"

\* the step in which caller w's Write takes the rotation branch of checkFile
RotateStep(w) == th[w].pc = "checkFile" /\ th'[w].pc = "Init"

\* the step in which caller w's Write does its byte write and returns
ReturnStep(w) == th[w].pc = "Fprint" /\ th'[w].pc = "idle"

\* the messages of a file were all issued in one hour
OneHour(f) ==
    \A i, j \in DOMAIN files[f] :
        (files[f][i].hr # NoFile /\ files[f][j].hr # NoFile)
            => files[f][i].hr = files[f][j].hr

\* C1: two Writes (of a single caller) issued in different hours land in
\* different files, and after each successful Write text.log names the file
\* that holds the message just written.
C1_HourlyFiles ==
    /\ [](~conc => \A f \in DOMAIN files : OneHour(f))
    /\ [][~conc => \A w \in Threads :
            (ReturnStep(w) /\ last'.err = "nil") => link' = fwfd.file]_vars

\* C2: a Write (of a single caller) issued in the same hour as the previous
\* Write, which succeeded, never takes the Sync/Close/Init branch of
\* checkFile.
C2_SameHourNoRotation ==
    [][~conc => \A w \in Threads :
          RotateStep(w) =>
              ~(last.msg # 0 /\ last.err = "nil" /\ last.hr = th[w].hr
                /\ th[w].hr = LogFile(now))]_vars

\* C3: a Write issued after Close (on a sink that had been initialised, by
\* a single caller) returns the closed error, and none of its steps opens a
\* descriptor, touches text.log or appends to a file.
C3_WriteAfterClose ==
    [][~conc => \A w \in Threads :
          (th[w].op = "Write" /\ th[w].ac) =>
              /\ fwfd' = fwfd
              /\ link' = link
              /\ files' = files
              /\ ReturnStep(w) => last'.err = "ErrClosed"]_vars

\* caller v is inside a rotation, between closing the old descriptor and
\* installing the new one
Rotating(v) == th[v].op = "Write" /\ th[v].pc \in {"Init", "Symlink", "OpenFile"}

\* C4: no Write does its byte write on a descriptor that another Write's
\* rotation has closed and not yet replaced.
C4_AtomicRotation ==
    [][\A w \in Threads :
          ReturnStep(w) =>
              ~(fwfd.st = "closed" /\ ~closed
                /\ \E v \in Threads \ {w} : Rotating(v))]_vars

\* C5: a Write whose rotation closed the descriptor and then failed to open
\* the new file returns an error for the rotation and leaves the sink with
\* an open descriptor.
C5_RotationFailure ==
    [][~conc => \A w \in Threads :
          (ReturnStep(w) /\ th[w].rotErr /\ fwfd.st # "nil") =>
              (last'.err = "open error" /\ FdOpen(fwfd'))]_vars

\* C6: with no Write ever called, the goroutine that is trying to emit the
\* boundary event gets back to its polling loop.
C6_SendReturns == (ht.pc = "send") ~> (ht.pc = "select" \/ ~Alive)

\* C7: with no Write called, once stop() was called the goroutine
\* terminates.
C7_StopTerminates == quitClosed ~> (ht.pc = "done" \/ ~Alive)

\* C8: stop() may be called again: the repeated call does not panic.
C8_StopIdempotent == panic # "close of closed channel"

Expected(msg) ==
    [Text |-> msg, Username |-> slack.Username, Channel |-> slack.Channel]

Appended(w) ==
    [files EXCEPT ![fwfd.file] = Append(@, Line(th[w]))]

\* C11: whatever the alert POST returned, the Write does its byte write on
\* fw.fd and returns exactly that write's result: nil with the message
\* appended, or the storage error with the files untouched, never the error
\* of the POST; the alert that was attempted stays sent.
C11_AlertFailureNotFatal ==
    [][\A w \in Threads :
          ReturnStep(w) =>
              /\ last'.msg = th[w].msg
              /\ alerts' = alerts
              /\ IF FdOpen(fwfd)
                 THEN \/ last'.err = "nil" /\ files' = Appended(w)
                      \/ last'.err = "write error" /\ files' = files
                 ELSE /\ last'.err \in {"ErrInvalid", "ErrClosed"}
                      /\ files' = files]_vars

\* a Write whose alert was attempted returned the storage error
C11_Witness ==
    /\ last.msg # 0
    /\ last.err = "write error"
    /\ alerts = <<Expected(last.msg)>>

C13_RotatedWrite ==
    [][~conc => \A w \in Threads :
          (/\ ReturnStep(w)
           /\ th[w].rot
           /\ ~th[w].rotErr
           /\ th[w].old # NoFile)
              => /\ files'[th[w].old] = files[th[w].old]
                 /\ link' = fwfd.file
                 /\ last'.err = "nil" => files' = Appended(w)]_vars

\* the step in which caller w's Init (called directly or by checkFile)
\* returns
InitReturnStep(w) == th[w].pc = "OpenFile" /\ th'[w].pc # "OpenFile"

\* C14: when Init returns to a single caller, with nil or with an error,
\* text.log exists and names the hourly file that fw.fd has open.
C14_AliasNamesOpenFile ==
    [][~conc => \A w \in Threads :
          InitReturnStep(w)
              => /\ link' # NoFile
                 /\ FdOpen(fwfd')
                 /\ link' = fwfd'.file]_vars

\* C15: between a first successful Init and Close, whenever no call of the
\* single caller is in progress, the sink has exactly one open descriptor:
\* fw.fd is open and no earlier descriptor is left open.
C15_OneDescriptor ==
    (~conc /\ Quiet /\ Alive /\ fwfd.st # "nil" /\ ~closed)
        => (FdOpen(fwfd) /\ leaked = 0)

\* C16: the level gates only the alert. Whatever the stored level and the
\* severity, a Write goes from checkFile to the rotation or to the byte
\* write, and it returns only from the byte write on fw.fd, which appends
\* the message unless the write itself fails.
C16_LevelNeverSkipsWrite ==
    [][\A w \in Threads :
          /\ (th[w].pc = "checkFile" /\ th'[w] # th[w])
                => th'[w].pc \in {"Init", "Fprint"}
          /\ (th[w].op = "Write" /\ th'[w].op # "Write")
                => /\ ReturnStep(w)
                   /\ FdOpen(fwfd)
                        => \/ files' = Appended(w)
                           \/ last'.err = "write error"]_vars

\* Init, SetLevel(LevelError + 1), then a Write of a severity below
\* LevelError (no alert), whose message is in the active file
C16_Witness ==
    /\ Quiet
    /\ level = LevelError + 1
    /\ ops = 3
    /\ last.msg = 3
    /\ last.err = "nil"
    /\ alerts = <<>>
    /\ FdOpen(fwfd)
    /\ \E i \in DOMAIN files[fwfd.file] : files[fwfd.file][i].msg = 3

\* C17: the Writes of a single caller appear in call order. Of two stored
\* messages the one written first is in the file of an earlier hour, or in
\* the same file ahead of the other.
C17_CallOrder ==
    ~conc =>
        \A f, g \in DOMAIN files :
            \A i \in DOMAIN files[f], j \in DOMAIN files[g] :
                files[f][i].msg < files[g][j].msg
                    => (f < g \/ (f = g /\ i < j))

\* two Writes of the single caller with a rotation between them
C17_Witness ==
    /\ ~conc
    /\ Quiet
    /\ \E f, g \in DOMAIN files :
          /\ f < g
          /\ files[f] # <<>>
          /\ files[g] # <<>>
          /\ link = g

\* C18: the clock has at most one event waiting (its single blocked send),
\* and it is for an hour later than the tracked hour. An event is emitted
\* only for a tick whose hour differs from the tracked hour, every such
\* tick emits one, and once the event is taken the tracked hour is the
\* hour of that tick, so no hour is announced twice.
C18_OneEventPerHour ==
    /\ [](ht.pc = "send" => Hour(ht.t) > ht.hour)
    /\ [][/\ (ht.pc # "send" /\ ht'.pc = "send")
                => /\ ht.pc = "select"
                   /\ ticker.C # <<>>
                   /\ ht'.t = Head(ticker.C)
                   /\ ht'.hour = ht.hour
          /\ (ht.pc = "select" /\ ticker.C # <<>> /\ ticker'.C = <<>>
              /\ ht'.pc # "done" /\ Hour(Head(ticker.C)) # ht.hour)
                => ht'.pc = "send"
          /\ (ht.pc = "send" /\ ht'.pc # "send")
                => /\ ht'.pc = "select"
                   /\ ht'.hour = Hour(ht.t)]_vars

\* a first event was taken (the tracked hour moved to 1) and the event of
\* the next hour is waiting
C18_Witness ==
    /\ ht.pc = "send"
    /\ ht.hour = 1
    /\ Hour(ht.t) = 2
    /\ \E w \in Threads : th[w].rot

\* the steps of caller w inside a call
CallerStep(w) ==
    \/ checkFileRotate(w)
    \/ checkFileDefault(w)
    \/ InitRemove(w)
    \/ InitSymlink(w)
    \/ InitOpen(w)
    \/ Fprint(w)

\* how far a call has got
Rank(pc) ==
    CASE pc = "checkFile" -> 1
      [] pc = "Init" -> 2
      [] pc = "Symlink" -> 3
      [] pc = "OpenFile" -> 4
      [] pc = "Fprint" -> 5
      [] OTHER -> 6

\* C19: the poll of the clock does not block. A Write in progress always
\* has a step of its own to take, whatever the clock task is doing, each
\* step takes it further, and a poll that finds no event waiting goes
\* straight to the byte write.
C19_PollNeverBlocks ==
    /\ [](\A w \in Threads :
             (Alive /\ th[w].op = "Write") => ENABLED CallerStep(w))
    /\ [][\A w \in Threads :
             /\ (th[w].op = "Write" /\ th'[w] # th[w])
                   => Rank(th'[w].pc) > Rank(th[w].pc)
             /\ (th[w].pc = "checkFile" /\ ht.pc # "send" /\ th'[w] # th[w])
                   => th'[w].pc = "Fprint"]_vars

\* a Write has returned although the clock task has not taken a single step
C19_Witness ==
    /\ ht.pc = "start"
    /\ Quiet
    /\ last.msg # 0
    /\ last.err = "nil"

\* C20: a boundary event is taken by one Write only. Every rotation takes
\* the event that is waiting, which then waits no more, and no second
\* caller moves in that step, so there are never more rotations than
\* events.
C20_OneRotationPerEvent ==
    [][\A w \in Threads :
          RotateStep(w)
              => /\ ht.pc = "send"
                 /\ ht'.pc = "select"
                 /\ \A v \in Threads \ {w} : th'[v] = th[v]]_vars

\* two Writes polled while one event was waiting: one of them rotated and
\* the other went straight to its byte write
C20_Witness ==
    /\ conc
    /\ \E w, v \in Threads :
          /\ w # v
          /\ th[w].op = "Write"
          /\ th[w].rot
          /\ th[v].pc = "Fprint"
          /\ ~th[v].rot
          /\ th[v].hr = th[w].hr

====
